---- MODULE Spec2Model ----
(***************************************************************************)
(* Change-detection core of hotKTbot.py: the date classifier (is_recent),  *)
(* the extractor and dedup pass (parse_obits), the baseline store          *)
(* (load_state / save_state) and the scrape cycle (check_updates) driven   *)
(* by the job queue set up in main.                                        *)
(*                                                                         *)
(* Strings.  A Python str is modelled as the sequence of its whitespace-   *)
(* separated tokens (the text is taken to be single-spaced and stripped,   *)
(* which is what get_text(strip=True) / str.strip() leave for a one-line   *)
(* text node).  Joining two strings with one blank, f"{a} {b}", is then    *)
(* the concatenation a \o b, and the substring ' - ' is a token "-" that   *)
(* has a blank on both sides.  Cyrillic words are transliterated.          *)
(***************************************************************************)
EXTENDS Integers, Sequences, FiniteSets, TLC

(***************************************************************************)
(* Bounds of the model.                                                    *)
(***************************************************************************)
MaxBlocks == 2      \* text nodes on one fetched page
MaxNow == 1         \* clock ticks (half days) the model lets pass
MaxChecks == 2      \* check_updates runs between two reset_hourly runs

\* An optional value: None is <<>>, a value v is <<v>>.
None == <<>>
Some(v) == <<v>>

(***************************************************************************)
(* str helpers                                                             *)
(***************************************************************************)
\* Positions of a "-" token that has a blank before and after it.
SepAt(t, i) == i > 1 /\ i < Len(t) /\ t[i] = "-"

\* ' - ' in t
HasSep(t) == \E i \in 1..Len(t) : SepAt(t, i)

\* t.find(' - '), as a token position
FirstSep(t) == CHOOSE i \in 1..Len(t) : SepAt(t, i) /\ \A j \in 1..(i - 1) : ~SepAt(t, j)

\* t.split(' - ', 1): the two parts, each stripped
SplitFirst(t) ==
    LET i == FirstSep(t)
    IN  <<SubSeq(t, 1, i - 1), SubSeq(t, i + 1, Len(t))>>

\* t.split(' - ')[-1].strip(): str.split scans left to right and the matches
\* do not overlap, so the last piece is found by splitting off first pieces.
RECURSIVE LastPiece(_)
LastPiece(t) == IF HasSep(t) THEN LastPiece(SplitFirst(t)[2]) ELSE t

\* len(t): the characters of the tokens and the blanks between them
RECURSIVE StrLen(_)
StrLen(t) ==
    IF t = <<>> THEN 0
    ELSE IF Len(t) = 1 THEN Len(t[1])
    ELSE Len(t[1]) + 1 + StrLen(Tail(t))

\* str.lower() of one token, on the tokens the model uses
Lower(tok) ==
    CASE tok = "Yanvarya" -> "yanvarya"
      [] tok = "Dekabrya" -> "dekabrya"
      [] tok = "Akter" -> "akter"
      [] OTHER -> tok

\* int(tok): the decimal numerals the model uses; anything else raises ValueError
Numerals ==
    [n \in {"1", "2", "3", "30", "31", "1950", "2024", "2025", "2026"} |->
        CASE n = "1" -> 1 [] n = "2" -> 2 [] n = "3" -> 3
          [] n = "30" -> 30 [] n = "31" -> 31 [] n = "1950" -> 1950
          [] n = "2024" -> 2024 [] n = "2025" -> 2025 [] n = "2026" -> 2026]

IsInt(tok) == tok \in DOMAIN Numerals
Int_(tok) == Numerals[tok]

(***************************************************************************)
(* datetime: proleptic Gregorian ordinals, as datetime(year, month, day)   *)
(***************************************************************************)
IsLeap(y) == (y % 4 = 0) /\ ((y % 100 # 0) \/ (y % 400 = 0))

DaysInMonth(y, m) ==
    CASE m = 2 -> IF IsLeap(y) THEN 29 ELSE 28
      [] m \in {4, 6, 9, 11} -> 30
      [] OTHER -> 31

RECURSIVE DaysBeforeMonth(_, _)
DaysBeforeMonth(y, m) ==
    IF m = 1 THEN 0 ELSE DaysBeforeMonth(y, m - 1) + DaysInMonth(y, m - 1)

DaysBeforeYear(y) ==
    LET p == y - 1 IN p * 365 + (p \div 4) - (p \div 100) + (p \div 400)

\* datetime(y, m, d) raises ValueError outside these ranges
ValidDate(y, m, d) ==
    y \in 1..9999 /\ m \in 1..12 /\ d >= 1 /\ d <= DaysInMonth(y, m)

\* date.toordinal()
Ordinal(y, m, d) == DaysBeforeYear(y) + DaysBeforeMonth(y, m) + d

\* The clock `now` counts half days from 1 January 2025, 00:00.
HalfDays(y, m, d) == 2 * (Ordinal(y, m, d) - Ordinal(2025, 1, 1))

(***************************************************************************)
(* is_recent                                                               *)
(***************************************************************************)
months_ru ==
    [n \in {"yanvarya", "fevralya", "marta", "aprelya", "maya", "iyunya",
            "iyulya", "avgusta", "sentyabrya", "oktyabrya", "noyabrya",
            "dekabrya"} |->
        CASE n = "yanvarya" -> 1 [] n = "fevralya" -> 2 [] n = "marta" -> 3
          [] n = "aprelya" -> 4 [] n = "maya" -> 5 [] n = "iyunya" -> 6
          [] n = "iyulya" -> 7 [] n = "avgusta" -> 8 [] n = "sentyabrya" -> 9
          [] n = "oktyabrya" -> 10 [] n = "noyabrya" -> 11 [] n = "dekabrya" -> 12]

\* death_date >= datetime.now() - timedelta(hours=24), in half days
RecentCompare(death, t) == death >= t - 2

\* The outcome of is_recent(death_date_str) at time t: "True", "False", or
\* "raised" when an exception reached the except clause (which returns False).
is_recent_outcome(death_date_str, t) ==
    LET s == IF HasSep(death_date_str) THEN LastPiece(death_date_str)
             ELSE death_date_str
        parts == s
    IN  IF Len(parts) >= 3
        THEN IF ~IsInt(parts[1]) \/ ~IsInt(parts[3]) THEN "raised"
             ELSE LET day == Int_(parts[1])
                      month_name == Lower(parts[2])
                      year == Int_(parts[3])
                  IN  IF month_name \notin DOMAIN months_ru THEN "False"
                      ELSE IF ~ValidDate(year, months_ru[month_name], day)
                           THEN "raised"
                      ELSE IF RecentCompare(
                                HalfDays(year, months_ru[month_name], day), t)
                           THEN "True" ELSE "False"
        ELSE "False"

\* except Exception as e: ... return False -- what the caller gets
is_recent_returns_unguarded(outcome) == outcome

is_recent_returns(outcome) == IF outcome = "raised" THEN "False" ELSE outcome

\* What a call is_recent(death_date_str) at time t returns
is_recent_result(death_date_str, t) ==
    is_recent_returns(is_recent_outcome(death_date_str, t))

is_recent(death_date_str, t) == is_recent_result(death_date_str, t) = "True"

(***************************************************************************)
(* Entries and their dedup key                                             *)
(***************************************************************************)
\* {'name': name, 'date': dates}
Obit(name, dates) == [name |-> name, date |-> dates]

\* f"{o['name']} {o['date']}": the two strings joined by one blank
Key(o) == o.name \o o.date

\* {Key(o) for o in obits}
Keys(obits) == {Key(obits[i]) : i \in 1..Len(obits)}

\* the (name, dateText) pairs of a list, as the structural pairs they are
Pairs(obits) == {obits[i] : i \in 1..Len(obits)}

\* [x for x in s if Test(x)], order kept
RECURSIVE SelectNotIn(_, _)
SelectNotIn(s, keys) ==
    IF s = <<>> THEN <<>>
    ELSE IF Key(Head(s)) \notin keys
         THEN <<Head(s)>> \o SelectNotIn(Tail(s), keys)
         ELSE SelectNotIn(Tail(s), keys)

(***************************************************************************)
(* parse_obits                                                             *)
(***************************************************************************)
\* The profession keywords, and the tokens of the model that contain one of
\* them as a substring once lowercased.
keywords ==
    {"akter", "artist", "rezhissyor", "teatr", "gimnast", "sport", "kino",
     "scenarist", "pisatel"}

ContainsKeyword(tok) == Lower(tok) \in keywords \cup {"kinoakter", "akterom"}

\* any(kw in text_lower for kw in keywords)
AnyKeyword(text) == \E i \in 1..Len(text) : ContainsKeyword(text[i])

\* A page is a sequence of nodes [tag, text]: an element of the given kind
\* ("h": h1..h4/strong/b, "div", "p": any other) with one text child.
\* The elements each of the three search strategies returns, in page order.
RECURSIVE Strategy(_, _)
Strategy(k, page) ==
    IF page = <<>> THEN <<>>
    ELSE LET n == Head(page)
             hit == CASE k = 1 -> HasSep(n.text)
                      [] k = 2 -> n.tag = "h"
                      [] k = 3 -> n.tag = "div" /\ HasSep(n.text)
         IN  (IF hit THEN <<n.text>> ELSE <<>>) \o Strategy(k, Tail(page))

\* The body of the loop over one element: the entries it appends (0 or 1).
MinTextLen == 10

Extract(text, t) ==
    IF text = <<>> \/ ~HasSep(text) \/ StrLen(text) < MinTextLen THEN <<>>
    ELSE LET parts == SplitFirst(text)
             name == parts[1]
             dates == parts[2]
         IN  IF AnyKeyword(text) /\ is_recent(dates, t)
             THEN <<Obit(name, dates)>>
             ELSE <<>>

RECURSIVE ExtractAll(_, _)
ExtractAll(texts, t) ==
    IF texts = <<>> THEN <<>>
    ELSE Extract(Head(texts), t) \o ExtractAll(Tail(texts), t)

\* obits after the three strategies have run
Extracted(page, t) ==
    ExtractAll(Strategy(1, page), t) \o ExtractAll(Strategy(2, page), t)
        \o ExtractAll(Strategy(3, page), t)

\* (the list as it would be without the dedup pass)
Unique_keep_all(obits, seen) == obits

\* "Убираем дубликаты": first occurrence of every key, order kept
RECURSIVE Unique(_, _)
Unique(obits, seen) ==
    IF obits = <<>> THEN <<>>
    ELSE IF Key(Head(obits)) \notin seen
         THEN <<Head(obits)>> \o Unique(Tail(obits), seen \cup {Key(Head(obits))})
         ELSE Unique(Tail(obits), seen)

(***************************************************************************)
(* The pages the site serves in the model                                  *)
(***************************************************************************)
Ivanov == <<"Ivanov", "\"Vanya\"", "-", "1950", "-", "31", "Dekabrya", "2024", "Akter">>
\* two blocks whose name/date split differs while name + ' ' + date agrees
SidorovA == <<"Sidorov", "1", "yanvarya", "2025", "-", "2", "yanvarya", "2025", "akter">>
SidorovB == <<"Sidorov", "-", "1", "yanvarya", "2025", "2", "yanvarya", "2025", "akter">>

Nodes ==
    { [tag |-> "h", text |-> Ivanov],
      [tag |-> "div", text |-> SidorovA],
      [tag |-> "p", text |-> SidorovB] }

Pages == UNION { [1..n -> Nodes] : n \in 0..MaxBlocks }

\* Further blocks, for calls of parse_obits on its own: no keyword, a date
\* text whose separators overlap ("1950 - - 1 yanvarya 2025"), a date that is
\* never recent, a heading without separator, a block met by all strategies
Petrov == <<"Petrov", "-", "1", "yanvarya", "2025", "inzhener">>
Orlov == <<"Orlov", "-", "1950", "-", "-", "1", "yanvarya", "2025", "akter">>
Smirnov == <<"Smirnov", "-", "1", "yanvarya", "2024", "akter">>
Heading == <<"Nekrologi", "akter">>

ScrapeNodes ==
    Nodes \cup
    { [tag |-> "p", text |-> Petrov],
      [tag |-> "p", text |-> Orlov],
      [tag |-> "div", text |-> Smirnov],
      [tag |-> "h", text |-> Heading],
      [tag |-> "div", text |-> Ivanov] }

ScrapePages == UNION { [1..n -> ScrapeNodes] : n \in 0..MaxBlocks }

\* What requests.get / raise_for_status / the block check / the debug dump do
\* in one call: "ok", or one of the failures, each of which returns [].
FetchOutcomes == {"ok", "timeout", "network", "blocked", "error"}

\* The page a call works on: the one served when the fetch succeeds; a failed
\* fetch has none (the block page of "blocked" is not parsed).
Served(outcome) == IF outcome = "ok" THEN Pages ELSE {<<>>}

\* Lines 147-213 on every page of the model at every time (computed once)
ScrapedTable ==
    [t \in 0..MaxNow |->
        [page \in ScrapePages |-> Unique(Extracted(page, t), {})]]

\* (comparing the table with itself makes TLC tabulate it, once)
Scraped == IF ScrapedTable = ScrapedTable THEN ScrapedTable ELSE ScrapedTable

\* parse_obits(): the list returned
parse_obits(outcome, page, t) ==
    IF outcome = "ok" THEN Scraped[t][page] ELSE <<>>

(***************************************************************************)
(* check_updates: the delta                                                *)
(***************************************************************************)
\* (the delta as it would be without the comparison with last_keys)
ComputeDelta_all(last, current) == current

\* last_keys = {...}; new_obits = [o for o in current_obits if key not in last_keys]
ComputeDelta(last, current) == SelectNotIn(current, Keys(last))

\* if new_obits:
ShouldNotify_always(new_obits) == TRUE

ShouldNotify(new_obits) == new_obits # <<>>

\* save_state(last_obits + new_obits): the list handed to save_state
NextBaseline_current(last, current, new) == current

NextBaseline_new_only(last, current, new) == new

NextBaseline(last, current, new) == last \o new

(***************************************************************************)
(* State                                                                   *)
(***************************************************************************)
VARIABLES
    last_obits,   \* the global last_obits: the in-memory baseline
    stats,        \* the global stats: checks_last_hour and last_check
    store,        \* the file last_obits.json: missing, malformed, or the list it holds
    loaded,       \* main has called load_state and the job queue is running
    inflight,     \* check_updates coroutines suspended in await send_message: their
                  \*   locals current_obits and new_obits, and (history) the
                  \*   baseline the delta was computed from
    now,          \* the wall clock, in half days
    propagated,   \* the exception that left check_updates, if one ever did
    cyc,          \* history: the latest run of check_updates in this process
    notified,     \* history: the entries handed to send_message by this process
    everDelta,    \* history: the entries that were part of some new_obits so far
    lastGood,     \* history: the list this process last read from or wrote to
                  \*   the file without an error, if it did
    written,      \* history: the list the file holds, when its text is what a
                  \*   save_state call wrote in full
    call          \* history: the latest call of is_recent or parse_obits made on
                  \*   its own (unused while the bot runs)

vars == <<last_obits, stats, store, loaded, inflight, now, propagated, cyc,
          notified, everDelta, lastGood, written, call>>

NoCycle ==
    [phase |-> "none", fetch |-> "none", new |-> FALSE,
     send |-> "none", save |-> "none"]

NoCall == [fn |-> "none"]

(***************************************************************************)
(* json.dump / json.load of a list of entries.  The text of the file is a  *)
(* sequence of lexemes; a string lexeme carries its tokens, escaped.       *)
(***************************************************************************)
Lex(kind, toks) == [t |-> kind, s |-> toks]

\* The JSON escape of one token, and its inverse, on the tokens of the model:
\* '"' is written as '\"' (ensure_ascii=False leaves everything else as is).
EscapeTok(tok) == IF tok = "\"Vanya\"" THEN "\\\"Vanya\\\"" ELSE tok
UnescapeTok_raw(tok) == tok

UnescapeTok(tok) == IF tok = "\\\"Vanya\\\"" THEN "\"Vanya\"" ELSE tok

JsonStr(str) == Lex("str", [i \in 1..Len(str) |-> EscapeTok(str[i])])
StrOf(lexeme) == [i \in 1..Len(lexeme.s) |-> UnescapeTok(lexeme.s[i])]

JsonObj(o) ==
    <<Lex("{", <<>>), JsonStr(<<"name">>), Lex(":", <<>>), JsonStr(o.name),
      Lex(",", <<>>), JsonStr(<<"date">>), Lex(":", <<>>), JsonStr(o.date),
      Lex("}", <<>>)>>

RECURSIVE JsonObjs(_)
JsonObjs(obits) ==
    IF obits = <<>> THEN <<>>
    ELSE IF Len(obits) = 1 THEN JsonObj(obits[1])
    ELSE JsonObj(obits[1]) \o <<Lex(",", <<>>)>> \o JsonObjs(Tail(obits))

\* json.dump(obits, f, ensure_ascii=False, indent=2): the text written
json_dump(obits) == <<Lex("[", <<>>)>> \o JsonObjs(obits) \o <<Lex("]", <<>>)>>

\* The object a text starts with: {"name": str, "date": str}
IsObjAt(text) ==
    /\ Len(text) >= 9
    /\ <<text[1].t, text[2].t, text[3].t, text[4].t, text[5].t, text[6].t,
         text[7].t, text[8].t, text[9].t>>
           = <<"{", "str", ":", "str", ",", "str", ":", "str", "}">>
    /\ {StrOf(text[2]), StrOf(text[6])} = {<<"name">>, <<"date">>}

ObjAt(text) ==
    IF StrOf(text[2]) = <<"name">>
    THEN [name |-> StrOf(text[4]), date |-> StrOf(text[8])]
    ELSE [name |-> StrOf(text[8]), date |-> StrOf(text[4])]

\* The elements of an array body: [ok, data]
RECURSIVE ParseObjs(_)
ParseObjs(body) ==
    IF ~IsObjAt(body) THEN [ok |-> FALSE, data |-> <<>>]
    ELSE IF Len(body) = 9 THEN [ok |-> TRUE, data |-> <<ObjAt(body)>>]
    ELSE IF body[10].t # "," THEN [ok |-> FALSE, data |-> <<>>]
    ELSE LET rest == ParseObjs(SubSeq(body, 11, Len(body)))
         IN  [ok |-> rest.ok,
              data |-> IF rest.ok THEN <<ObjAt(body)>> \o rest.data ELSE <<>>]

\* json.load(f): [ok, data]; ok is FALSE where json.load raises (a text that
\* is no array of such objects is not written by this program).
json_load(text) ==
    IF Len(text) < 2 \/ text[1].t # "[" \/ text[Len(text)].t # "]"
    THEN [ok |-> FALSE, data |-> <<>>]
    ELSE IF Len(text) = 2 THEN [ok |-> TRUE, data |-> <<>>]
    ELSE ParseObjs(SubSeq(text, 2, Len(text) - 1))

\* The states of the file last_obits.json: no file, a file whose text
\* json.load rejects (here: truncated to nothing), a file with a dumped list
Missing == [kind |-> "missing", data |-> <<>>]
Malformed == [kind |-> "malformed", data |-> <<>>]
File(obits) == [kind |-> "list", data |-> json_dump(obits)]

InitStats == [checks_last_hour |-> 0, last_check |-> None]

\* The module body: stats = {...}, last_obits = [].  No state file exists yet.
Init ==
    /\ last_obits = <<>>
    /\ stats = InitStats
    /\ store = Missing
    /\ loaded = FALSE
    /\ inflight = <<>>
    /\ now = 0
    /\ propagated = None
    /\ cyc = NoCycle
    /\ notified = {}
    /\ everDelta = {}
    /\ lastGood = None
    /\ written = None
    /\ call = NoCall

(***************************************************************************)
(* load_state / save_state                                                 *)
(***************************************************************************)
\* The exception the try block of load_state raises on a file, if any
LoadRaises(file) ==
    IF file.kind = "missing" THEN Some("FileNotFoundError")
    ELSE IF file.kind = "malformed" \/ ~json_load(file.data).ok
         THEN Some("JSONDecodeError")
    ELSE None

\* except FileNotFoundError / except Exception: both clauses of load_state
\* set last_obits = [] and return; no exception leaves load_state.
LoadCaught_missing_only(exc) == exc = "FileNotFoundError"

LoadCaught(exc) == TRUE

\* What load_state leaves in last_obits for each state of the file
load_state(file) ==
    IF LoadRaises(file) # None THEN <<>>        \* the except clauses
    ELSE json_load(file.data).data              \* last_obits = data

\* main: load_state(), then the jobs are scheduled and polling starts.  An
\* exception that left load_state would end main before the bot starts.
LoadState ==
    /\ ~loaded
    /\ IF LoadRaises(store) = None \/ LoadCaught(LoadRaises(store)[1])
       THEN /\ last_obits' = load_state(store)
            /\ loaded' = TRUE
            /\ lastGood' = IF LoadRaises(store) = None
                            THEN Some(load_state(store)) ELSE None
            /\ UNCHANGED propagated
       ELSE /\ propagated' = LoadRaises(store)
            /\ UNCHANGED <<last_obits, loaded, lastGood>>
    /\ UNCHANGED <<stats, store, inflight, now, cyc, notified, everDelta, written,
                   call>>

\* What the try block of save_state does to the file: the dump succeeds, or
\* open() raises and the file is untouched, or open() has truncated the file
\* and the write raises.
SaveOutcomes == {"ok", "open_failed", "write_failed"}

WriteFile(file, obits, outcome) ==
    CASE outcome = "ok" -> File(obits)
      [] outcome = "open_failed" -> file
      [] outcome = "write_failed" -> Malformed

\* save_state(obits): the value of last_obits when it returns; the global is
\* assigned before the try block, so the outcome of the write does not matter.
save_state_after_write(last, obits, outcome) == IF outcome = "ok" THEN obits ELSE last

save_state_no_assign(last, obits, outcome) == last

save_state(last, obits, outcome) == obits

(***************************************************************************)
(* check_updates                                                           *)
(***************************************************************************)
\* stats["checks_last_hour"] += 1; stats["last_check"] = current_time
Counters_no_time(st, t) == [st EXCEPT !.checks_last_hour = @ + 1]

Counters(st, t) == [checks_last_hour |-> st.checks_last_hour + 1, last_check |-> Some(t)]

\* job_queue.run_repeating(check_updates, interval=60, first=10): the job
\* queue starts a run of the job only while no earlier run of it is still
\* running (one instance per job), so a tick that falls into a pending
\* send_message is skipped.
CanFire_overlap == Len(inflight) < 2

CanFire == inflight = <<>>

\* except Exception as e: logger.error(...) -- every exception raised in the
\* body of check_updates ends there; none leaves the coroutine.
Caught_network_only(exc) == exc \in {"Timeout", "RequestException"}

Caught(exc) == TRUE

\* Lines 264-286: the counters, the scrape, the delta and, for a non-empty
\* delta, the call of send_message, where the coroutine is suspended.
\* parse_obits blocks the event loop, so nothing runs in between.
CheckUpdates(outcome, page) ==
    LET current_obits == parse_obits(outcome, page, now)
        new_obits == ComputeDelta(last_obits, current_obits)
    IN  /\ loaded
        /\ CanFire
        /\ stats.checks_last_hour < MaxChecks
        /\ stats' = Counters(stats, now)
        /\ inflight' = IF ShouldNotify(new_obits)
                       THEN Append(inflight, [current_obits |-> current_obits,
                                              new_obits |-> new_obits,
                                              base |-> last_obits])
                       ELSE inflight
        /\ cyc' = [phase |-> IF ShouldNotify(new_obits) THEN "sending" ELSE "done",
                   fetch |-> IF outcome = "ok" THEN "ok" ELSE "failed",
                   new |-> new_obits # <<>>,
                   send |-> IF ShouldNotify(new_obits) THEN "pending" ELSE "none",
                   save |-> "none"]
        /\ notified' = notified \cup Pairs(new_obits)
        /\ everDelta' = everDelta \cup Pairs(new_obits)
        /\ UNCHANGED <<last_obits, store, loaded, now, propagated, lastGood,
                       written, call>>

Remove(s, i) == SubSeq(s, 1, i - 1) \o SubSeq(s, i + 1, Len(s))

\* Lines 292-295: send_message returned; save_state(last_obits + new_obits).
SendOk(i, saved) ==
    /\ i \in 1..Len(inflight)
    /\ LET obits == NextBaseline(last_obits, inflight[i].current_obits,
                                 inflight[i].new_obits)
       IN  /\ last_obits' = save_state(last_obits, obits, saved)
           /\ store' = WriteFile(store, obits, saved)
           /\ lastGood' = IF saved = "ok" THEN Some(obits) ELSE lastGood
           /\ written' = CASE saved = "ok" -> Some(obits)
                          [] saved = "open_failed" -> written
                          [] saved = "write_failed" -> None
    /\ inflight' = Remove(inflight, i)
    /\ cyc' = [cyc EXCEPT !.phase = "done", !.send = "ok", !.save = saved]
    /\ UNCHANGED <<stats, loaded, now, propagated, notified, everDelta, call>>

\* except Exception as e: logger.error(...) -- the baseline after a send that
\* raised: the except clause only logs, save_state is not reached.
AfterFailedSend_advance(last, new) == last \o new

AfterFailedSend(last, new) == last

\* Lines 286, 299-300: send_message raised; the except clause logs it.
SendFail(i) ==
    /\ i \in 1..Len(inflight)
    /\ last_obits' = AfterFailedSend(last_obits, inflight[i].new_obits)
    /\ inflight' = Remove(inflight, i)
    /\ propagated' = IF Caught("TelegramError") THEN propagated
                     ELSE Some("TelegramError")
    /\ cyc' = [cyc EXCEPT !.phase = "done", !.send = "failed"]
    /\ UNCHANGED <<stats, store, loaded, now, notified, everDelta, lastGood, written, call>>

(***************************************************************************)
(* The other handlers and the environment                                  *)
(***************************************************************************)
\* reset_hourly
ResetHourly ==
    /\ loaded
    /\ stats' = [stats EXCEPT !.checks_last_hour = 0]
    /\ UNCHANGED <<last_obits, store, loaded, inflight, now, propagated, cyc,
                   notified, everDelta, lastGood, written, call>>

\* status_command: the figures of the reply; nothing is written
StatusReply ==
    [total_obits |-> Len(last_obits),
     last_check |-> stats.last_check,
     checks |-> stats.checks_last_hour]

StatusCommand ==
    /\ loaded
    /\ StatusReply.total_obits = Len(last_obits)
    /\ UNCHANGED vars

\* time passes
Tick ==
    /\ now < MaxNow
    /\ now' = now + 1
    /\ UNCHANGED <<last_obits, stats, store, loaded, inflight, propagated, cyc,
                   notified, everDelta, lastGood, written, call>>

\* The process is stopped and started again: the module body runs anew, the
\* file stays as it is, a suspended check_updates is gone.
Restart ==
    /\ loaded
    /\ last_obits' = <<>>
    /\ stats' = InitStats
    /\ loaded' = FALSE
    /\ inflight' = <<>>
    /\ propagated' = None
    /\ cyc' = NoCycle
    /\ notified' = {}
    /\ lastGood' = None
    /\ UNCHANGED <<store, now, everDelta, written, call>>

Next ==
    \/ LoadState
    \/ \E outcome \in FetchOutcomes : \E page \in Served(outcome) :
            CheckUpdates(outcome, page)
    \/ \E i \in 1..Len(inflight), saved \in SaveOutcomes : SendOk(i, saved)
    \/ \E i \in 1..Len(inflight) : SendFail(i)
    \/ ResetHourly
    \/ StatusCommand
    \/ Tick
    \/ Restart

Spec == Init /\ [][Next]_vars

(***************************************************************************)
(* The functions on their own: one call per step, the bot not running      *)
(***************************************************************************)
\* The date texts is_recent is called with: day, month and year tokens, with
\* and without a birth date before them, and texts of fewer than three tokens
DayTokens == {"1", "30", "31", "pervogo"}
MonthTokens == {"yanvarya", "Yanvarya", "fevralya", "dekabrya", "yanvar"}
YearTokens == {"2024", "2025", "2026", "god"}

DateTexts ==
    {<<d, m, y>> : d \in DayTokens, m \in MonthTokens, y \in YearTokens}
    \cup {<<"1950", "-", d, m, "2025">> : d \in DayTokens, m \in MonthTokens}
    \cup {<<>>, <<"1">>, <<"1", "yanvarya">>, <<"1", "yanvarya", "2025", "akter">>}

IsRecentCall ==
    \E d \in DateTexts, t \in 0..MaxNow :
        /\ call' = [fn |-> "is_recent", arg |-> d, now |-> t,
                    result |-> is_recent_result(d, t)]
        /\ UNCHANGED <<last_obits, stats, store, loaded, inflight, now,
                       propagated, cyc, notified, everDelta, lastGood,
                       written>>

SpecRecent == Init /\ [][IsRecentCall]_vars

ParseObitsCall ==
    \E page \in ScrapePages, t \in 0..MaxNow :
        /\ call' = [fn |-> "parse_obits", arg |-> page, now |-> t,
                    result |-> parse_obits("ok", page, t)]
        /\ UNCHANGED <<last_obits, stats, store, loaded, inflight, now,
                       propagated, cyc, notified, everDelta, lastGood,
                       written>>

SpecScrape == Init /\ [][ParseObitsCall]_vars

(***************************************************************************)
(* Properties                                                              *)
(***************************************************************************)
\* s is a prefix of t
IsPrefix(s, t) == Len(s) <= Len(t) /\ SubSeq(t, 1, Len(s)) = s

\* The step is the return (SendOk) or the failure (SendFail) of the
\* send_message call of the i-th suspended run.
SendReturns(i) == \E saved \in SaveOutcomes : SendOk(i, saved)
SendEnds(i) == SendReturns(i) \/ SendFail(i)

\* The step is a run of check_updates up to its end or its await.
CycleStarts ==
    \E outcome \in FetchOutcomes : \E page \in Served(outcome) :
        CheckUpdates(outcome, page)

\* [o for o in current if (name, date) of o is the pair of no entry of last]
RECURSIVE SelectUnseenPairs(_, _)
SelectUnseenPairs(current, last) ==
    IF current = <<>> THEN <<>>
    ELSE IF Head(current) \notin Pairs(last)
         THEN <<Head(current)>> \o SelectUnseenPairs(Tail(current), last)
         ELSE SelectUnseenPairs(Tail(current), last)

\* C1: whenever the send of a cycle with a non-empty delta ends, successfully
\* or with an exception, the in-memory baseline afterwards is the baseline the
\* cycle started from followed by its delta.
C1_BaselineAdvancesWhateverTheSend ==
    [][\A i \in 1..Len(inflight) :
          SendEnds(i) =>
              last_obits' = inflight[i].base \o inflight[i].new_obits]_vars

\* C2: an entry handed to send_message in one cycle of a process is in the
\* delta of no later cycle of that process, whether or not the send succeeded.
C2_HandedToTheSinkAtMostOnce ==
    [][Len(inflight') > Len(inflight) =>
          Pairs(inflight'[Len(inflight')].new_obits) \cap notified = {}]_vars

\* C3: the delta a cycle computes is the subsequence of its candidates whose
\* (name, date) pair is the pair of no baseline entry.
C3_DeltaIsTheUnseenPairs ==
    [][\A outcome \in FetchOutcomes : \A page \in Served(outcome) :
          CheckUpdates(outcome, page) =>
              (IF cyc'.new THEN inflight'[Len(inflight')].new_obits ELSE <<>>)
                  = SelectUnseenPairs(parse_obits(outcome, page, now), last_obits)]_vars

\* C4: from load_state on, the in-memory baseline only grows at its end: the
\* baseline before any step of the running process is a prefix of the
\* baseline after it.
C4_BaselineAppendOnly ==
    [][loaded /\ loaded' => IsPrefix(last_obits, last_obits')]_vars

\* a cycle has extended a non-empty baseline and a later send has failed
C4_Witness ==
    loaded /\ last_obits # <<>> /\ cyc.phase = "done" /\ cyc.send = "failed"

\* C5: a cycle whose delta is empty changes neither the in-memory baseline nor
\* the file, calls neither send_message nor save_state.
C5_EmptyDeltaChangesNothing ==
    [][CycleStarts /\ ~cyc'.new =>
          /\ last_obits' = last_obits
          /\ store' = store
          /\ inflight' = inflight
          /\ notified' = notified
          /\ cyc'.send = "none" /\ cyc'.save = "none" /\ cyc'.phase = "done"]_vars

\* a cycle that fetched a page found nothing new against a non-empty baseline
C5_Witness ==
    /\ cyc.phase = "done" /\ cyc.fetch = "ok" /\ ~cyc.new
    /\ last_obits # <<>> /\ store = File(last_obits)

\* C6: a cycle whose fetch fails changes neither the in-memory baseline nor
\* the file and sends nothing; every cycle, that one included, adds one to
\* checks_last_hour and sets last_check to the current time.
C6_FailedFetchOnlyCounts ==
    [][/\ CycleStarts =>
             /\ stats'.checks_last_hour = stats.checks_last_hour + 1
             /\ stats'.last_check = Some(now)
       /\ \A outcome \in FetchOutcomes \ {"ok"} : \A page \in Served(outcome) :
             CheckUpdates(outcome, page) =>
                 /\ last_obits' = last_obits
                 /\ store' = store
                 /\ inflight' = inflight
                 /\ notified' = notified
                 /\ cyc'.send = "none" /\ cyc'.save = "none"]_vars

\* a fetch has failed while the baseline was not empty
C6_Witness ==
    /\ cyc.phase = "done" /\ cyc.fetch = "failed"
    /\ last_obits # <<>> /\ store = File(last_obits)
    /\ stats.checks_last_hour >= 1 /\ stats.last_check = Some(now)

\* C7: at most one run of check_updates is suspended at any time, and the
\* baseline it computed its delta from is still the in-memory baseline.
C7_CyclesDoNotOverlap ==
    /\ Len(inflight) <= 1
    /\ \A i \in 1..Len(inflight) : inflight[i].base = last_obits

\* a run is waiting for send_message while reset_hourly has run
C7_Witness ==
    /\ Len(inflight) = 1 /\ last_obits # <<>>
    /\ stats.checks_last_hour = 0 /\ stats.last_check # None

\* C8: when the write in save_state fails, the in-memory baseline is the old
\* one followed by the delta all the same, and the file does not hold it; the
\* delta of every later cycle has no key of the in-memory baseline, which
\* only grows.
C8_FailedSaveKeepsMemoryAdvanced ==
    [][/\ \A i \in 1..Len(inflight) : \A saved \in SaveOutcomes \ {"ok"} :
             SendOk(i, saved) =>
                 /\ last_obits' = inflight[i].base \o inflight[i].new_obits
                 /\ store' # File(last_obits')
                 /\ store' \in {store, Malformed}
       /\ Len(inflight') > Len(inflight) =>
             Keys(inflight'[Len(inflight')].new_obits) \cap Keys(last_obits) = {}
       /\ loaded /\ loaded' /\ store # File(last_obits) =>
             IsPrefix(last_obits, last_obits')]_vars

\* a later cycle has run against a baseline that the file does not hold
C8_Witness ==
    /\ loaded /\ last_obits # <<>> /\ store # File(last_obits)
    /\ cyc.phase = "done" /\ cyc.fetch = "ok" /\ ~cyc.new

\* C9: no exception leaves check_updates; a suspended run can always end,
\* and once a run has ended the job queue can start the next one.
C9_NoFailureIsFatal ==
    /\ propagated = None
    /\ inflight # <<>> => ENABLED SendFail(1) /\ ENABLED SendOk(1, "ok")
    /\ cyc.phase = "done" /\ stats.checks_last_hour < MaxChecks => ENABLED CycleStarts

\* a send has raised and a write has failed, in two cycles of one process
C9_Witness ==
    /\ cyc.phase = "done" /\ cyc.send = "failed"
    /\ last_obits # <<>> /\ store # File(last_obits)

\* C10: every entry of the in-memory baseline was in the delta of some cycle
\* (of this process or of an earlier one that wrote the file).
C10_BaselineComesFromDeltas ==
    \A i \in 1..Len(last_obits) : last_obits[i] \in everDelta

\* the baseline of a restarted process, read from the file
C10_Witness ==
    loaded /\ cyc.phase = "none" /\ Len(last_obits) = 2

\* The entry the extractor makes of a block: the text before the first
\* separator and the text after it
BlockEntry(text) == Obit(SplitFirst(text)[1], SplitFirst(text)[2])

\* C11: the list one call of parse_obits returns has no two elements with the
\* same (name, dateText) pair, each element is the entry of one of the blocks
\* of the page, and is_recent classifies its date text as recent.
C11_ScrapeIsUniqueRecentSubset ==
    call.fn = "parse_obits" =>
        /\ \A i, j \in 1..Len(call.result) :
              i # j => call.result[i] # call.result[j]
        /\ \A i \in 1..Len(call.result) :
              /\ \E k \in 1..Len(call.arg) :
                    /\ HasSep(call.arg[k].text)
                    /\ call.result[i] = BlockEntry(call.arg[k].text)
              /\ is_recent_result(call.result[i].date, call.now) = "True"

\* two blocks, each met by two strategies: four candidates, two returned
C11_Witness ==
    /\ call.fn = "parse_obits"
    /\ Len(Extracted(call.arg, call.now)) = 4
    /\ Len(call.result) = 2

\* C12: a load_state that reads a file written in full by save_state leaves in
\* last_obits the list that was saved, entry by entry and in the same order;
\* and a cycle of a process whose baseline came from that file has none of
\* the saved entries in its delta.
C12_SavedBaselineIsReadBack ==
    [][/\ LoadState /\ written # None => last_obits' = written[1]
       /\ CycleStarts /\ written # None /\ lastGood = written =>
             \A i \in 1..Len(inflight') :
                 Pairs(inflight'[i].new_obits) \cap Pairs(written[1]) = {}]_vars

\* a restarted process has read back a list with a name that needs escaping
C12_Witness ==
    /\ loaded /\ cyc.phase = "none" /\ written = Some(last_obits)
    /\ \E i \in 1..Len(last_obits) : last_obits[i].name = <<"Ivanov", "\"Vanya\"">>

\* C13: load_state on a missing file, and on a file json.load rejects, leaves
\* the baseline empty, lets no exception out, and main goes on to start the
\* bot, whose first cycle can then run.
C13_LoadNeverFails ==
    [][LoadState /\ store.kind \in {"missing", "malformed"} =>
          /\ last_obits' = <<>>
          /\ propagated' = None
          /\ loaded'
          /\ inflight' = <<>>]_vars

\* a process started on the file a failed write left behind
C13_Witness ==
    /\ loaded /\ cyc.phase = "none" /\ propagated = None
    /\ store = Malformed /\ last_obits = <<>>
    /\ ENABLED CycleStarts

\* The calendar, written out for the dates of DateTexts: the number of each
\* day, month and year token that is one, the days from 1 January 2025 to the
\* first of a month, and the lengths of the months.
DayNumber == [d \in {"1", "30", "31"} |-> IF d = "1" THEN 1 ELSE IF d = "30" THEN 30 ELSE 31]

MonthNumber ==
    [m \in {"yanvarya", "Yanvarya", "fevralya", "dekabrya"} |->
        IF m = "fevralya" THEN 2 ELSE IF m = "dekabrya" THEN 12 ELSE 1]

YearNumber ==
    [y \in {"2024", "2025", "2026"} |->
        IF y = "2024" THEN 2024 ELSE IF y = "2025" THEN 2025 ELSE 2026]

MonthStart(y, m) ==
    CASE y = 2024 /\ m = 1 -> 0 - 366 [] y = 2024 /\ m = 2 -> 0 - 335
      [] y = 2024 /\ m = 12 -> 0 - 31 [] y = 2025 /\ m = 1 -> 0
      [] y = 2025 /\ m = 2 -> 31      [] y = 2025 /\ m = 12 -> 334
      [] y = 2026 /\ m = 1 -> 365     [] y = 2026 /\ m = 2 -> 396
      [] y = 2026 /\ m = 12 -> 699

MonthLength(y, m) == IF m # 2 THEN 31 ELSE IF y = 2024 THEN 29 ELSE 28

\* The "D Month YYYY" part of a date text of DateTexts (after the birth date,
\* if it has one), and the answer the calendar gives for it at time t (in
\* half days since 1 January 2025, 00:00).
DatePart(text) == IF Len(text) = 5 THEN SubSeq(text, 3, 5) ELSE text

ByCalendar(text, t) ==
    LET p == DatePart(text)
    IN  IF Len(p) < 3 THEN "False"
        ELSE IF p[1] \notin DOMAIN DayNumber \/ p[3] \notin DOMAIN YearNumber
             THEN "False"
        ELSE IF p[2] \notin DOMAIN MonthNumber THEN "False"
        ELSE LET d == DayNumber[p[1]]
                 m == MonthNumber[p[2]]
                 y == YearNumber[p[3]]
             IN  IF d > MonthLength(y, m) THEN "False"
                 ELSE IF 2 * (MonthStart(y, m) + d - 1) >= t - 2 THEN "True"
                 ELSE "False"

\* C14: is_recent answers True for a valid "D Month YYYY" text whose day, at
\* midnight, is not earlier than 24 hours before now (a future day included),
\* and answers False, without raising, for an older day, an unknown month
\* name, a text of fewer than three tokens, a day or year that is no number,
\* and a day the month does not have.
C14_IsRecentFollowsTheCalendar ==
    call.fn = "is_recent" => call.result = ByCalendar(call.arg, call.now)

\* the day that began exactly 24 hours before now is still recent
C14_Witness ==
    /\ call.fn = "is_recent" /\ call.now = 0
    /\ call.arg = <<"31", "dekabrya", "2024">>
    /\ call.result = "True"

\* The first occurrence of every (name, dateText) pair of a list, order kept
RECURSIVE FirstOfEachPair(_, _)
FirstOfEachPair(obits, seen) ==
    IF obits = <<>> THEN <<>>
    ELSE IF Head(obits) \notin seen
         THEN <<Head(obits)>> \o FirstOfEachPair(Tail(obits), seen \cup {Head(obits)})
         ELSE FirstOfEachPair(Tail(obits), seen)

\* C15: the list parse_obits returns is the list of the recent candidates
\* with, for every distinct (name, dateText) pair, its first occurrence kept
\* and every later one removed, in extraction order; no candidate whose pair
\* differs from all earlier ones is missing.
C15_DedupKeepsFirstOfEachPair ==
    call.fn = "parse_obits" =>
        call.result = FirstOfEachPair(Extracted(call.arg, call.now), {})

\* The part of a text after its last ' - ' (the whole text if it has none)
LastSep(t) == CHOOSE i \in 1..Len(t) : SepAt(t, i) /\ \A j \in (i + 1)..Len(t) : ~SepAt(t, j)
AfterLastSep(t) == IF HasSep(t) THEN SubSeq(t, LastSep(t) + 1, Len(t)) ELSE t

\* C16: of a page with one block, parse_obits returns the entry (text before
\* the first ' - ', text after it) exactly when the block contains ' - ',
\* its lowercased text contains a profession keyword, and the part of the
\* date text after its last ' - ' is a recent date; otherwise nothing.
C16_SplitFirstJudgeAfterLast ==
    call.fn = "parse_obits" /\ Len(call.arg) = 1 =>
        LET text == call.arg[1].text
        IN  call.result =
                IF /\ HasSep(text)
                   /\ AnyKeyword(text)
                   /\ is_recent_result(AfterLastSep(BlockEntry(text).date),
                                       call.now) = "True"
                THEN <<BlockEntry(text)>>
                ELSE <<>>

\* no two entries of the list have the same dedup key
KeysUnique(obits) ==
    \A i, j \in 1..Len(obits) : i # j => Key(obits[i]) # Key(obits[j])

\* C17: the baseline load_state read has no two entries with the same dedup
\* key (the file holds what a cycle saved), and whatever cycles follow, with
\* whatever failures of fetch, send and save, the in-memory baseline never
\* has two entries with the same dedup key.
C17_BaselineKeysStayUnique ==
    /\ loaded => KeysUnique(last_obits)
    /\ written # None => KeysUnique(written[1])

\* two cycles have extended the baseline, the write of the second one failed
C17_Witness ==
    /\ loaded /\ Len(last_obits) = 2
    /\ cyc.phase = "done" /\ cyc.save = "write_failed"

\* C18: while the process runs, the baseline changes only in the step in
\* which a send_message call returns, and then by appending the entries of
\* the message that call delivered; the step in which a send raises changes
\* neither the baseline nor the file, and no save_state call is made in it.
C18_BaselineGrowsOnlyAfterDelivery ==
    [][/\ loaded /\ loaded' /\ last_obits' # last_obits =>
             \E i \in 1..Len(inflight) :
                 /\ SendReturns(i)
                 /\ last_obits' = last_obits \o inflight[i].new_obits
                 /\ Pairs(inflight[i].new_obits) \subseteq notified
       /\ \A i \in 1..Len(inflight) :
             SendFail(i) =>
                 /\ last_obits' = last_obits /\ store' = store
                 /\ written' = written /\ cyc'.save = "none"]_vars

\* the second cycle of a process has delivered and saved the first entry
C18_Witness ==
    /\ loaded /\ cyc.phase = "done" /\ cyc.send = "ok" /\ cyc.save = "ok"
    /\ Len(last_obits) = 1 /\ stats.checks_last_hour = 2

\* C19: in a running process that has read or written the file without an
\* error, the list it last read or wrote is a prefix of the in-memory
\* baseline; in the step in which a save succeeds the file holds exactly the
\* new in-memory baseline; and the file changes only in a step in which the
\* send of a cycle with a non-empty delta returns.
C19_FileIsPrefixOfBaseline ==
    [][/\ loaded' /\ lastGood' # None => IsPrefix(lastGood'[1], last_obits')
       /\ \A i \in 1..Len(inflight) :
             SendOk(i, "ok") =>
                 /\ lastGood' = Some(last_obits')
                 /\ store' = File(last_obits')
                 /\ load_state(store') = last_obits'
       /\ store' # store =>
             \E i \in 1..Len(inflight) :
                 SendReturns(i) /\ inflight[i].new_obits # <<>>]_vars

\* the baseline is ahead of the file: a later save failed at open
C19_Witness ==
    /\ loaded /\ lastGood # None /\ lastGood[1] # <<>>
    /\ Len(last_obits) > Len(lastGood[1])
    /\ store = File(lastGood[1])

====
